---- MODULE Spec2Model ----
(***************************************************************************)
(* Model of scripts/categorize_questions.py: the category validation and   *)
(* response parsing done by categorize_question, its retry loop, and the   *)
(* thread-pool dispatcher categorize_all_questions with its incremental    *)
(* save_results.                                                           *)
(*                                                                         *)
(* Python strings that the code inspects character by character (the       *)
(* category labels) are sequences of Unicode code points.  Response texts  *)
(* are sequences of lexical tokens, error messages sequences of words.     *)
(* Time is counted in ticks of half a second.                              *)
(***************************************************************************)
EXTENDS Integers, Sequences, FiniteSets, TLC

----------------------------------------------------------------------------
(* CATEGORIES, lines 32-44, as code points.                                *)

CATEGORIES ==
  << <<193,108,116,97,108,225,110,111,115,32,97,110,97,116,243,109,105,97,32,233,115,32,107,111,114,116,97,110>>,
     <<65,32,109,111,122,103,225,115,32,115,122,101,114,118,32,114,101,110,100,115,122,101,114,101>>,
     <<75,101,114,105,110,103,233,115>>,
     <<76,233,103,122,337,114,101,110,100,115,122,101,114>>,
     <<73,100,101,103,114,101,110,100,115,122,101,114>>,
     <<75,105,118,225,108,97,115,122,116,225,115,32,115,122,101,114,118,114,101,110,100,115,122,101,114,101>>,
     <<83,122,97,112,111,114,111,100,225,115,32,115,122,101,114,118,114,101,110,100,115,122,101,114,101>>,
     <<65,32,110,101,117,114,111,101,110,100,111,107,114,105,110,32,114,101,110,100,115,122,101,114>>,
     <<65,122,32,233,114,122,233,107,115,122,101,114,118,101,107,32,233,115,32,101,109,108,337>>,
     <<69,108,115,337,115,101,103,233,108,121,110,121,250,106,116,225,115>>,
     <<69,109,233,115,122,116,233,115>> >>

CategorySet == { CATEGORIES[i] : i \in 1..Len(CATEGORIES) }

(* str.lower() on one code point: ASCII, Latin-1 and the Latin Extended-A  *)
(* pairs that Hungarian uses (336/337, 368/369 and their neighbours).      *)
LowerCP(c) ==
  IF (c >= 65 /\ c <= 90) \/ (c >= 192 /\ c <= 222 /\ c # 215) THEN c + 32
  ELSE IF c >= 330 /\ c <= 375 /\ c % 2 = 0 THEN c + 1
  ELSE c

(* str.upper() on one code point, used to build case-varied inputs.        *)
UpperCP(c) ==
  IF (c >= 97 /\ c <= 122) \/ (c >= 224 /\ c <= 254 /\ c # 247) THEN c - 32
  ELSE IF c >= 330 /\ c <= 375 /\ c % 2 = 1 THEN c - 1
  ELSE c

StrLower(s) == [i \in 1..Len(s) |-> LowerCP(s[i])]

StrUpper(s) == [i \in 1..Len(s) |-> UpperCP(s[i])]

(* Python's `a in b` on strings.                                           *)
IsSubstring(a, b) ==
  \E k \in 0..(Len(b) - Len(a)) : SubSeq(b, k + 1, k + Len(a)) = a

(* Line 201 with only the second of its two tests.                         *)
RelatedOneWay(cat, category) == IsSubstring(StrLower(category), StrLower(cat))

(* The test of line 201 for one member.                                    *)
Related(cat, category) ==
  \/ IsSubstring(StrLower(cat), StrLower(category))
  \/ IsSubstring(StrLower(category), StrLower(cat))

(* The for loop of lines 200-203 without the break of line 203: the last   *)
(* related member replaces the label.                                      *)
RECURSIVE ClosestMatchLast(_, _)
ClosestMatchLast(category, i) ==
  IF i > Len(CATEGORIES) THEN category
  ELSE LET rest == ClosestMatchLast(category, i + 1)
       IN  IF rest # category \/ ~Related(CATEGORIES[i], category) THEN rest
           ELSE CATEGORIES[i]

(* The for loop of lines 200-203, from member i on: the first related      *)
(* member replaces the label, and the label stays when the loop runs out.  *)
RECURSIVE ClosestMatch(_, _)
ClosestMatch(category, i) ==
  IF i > Len(CATEGORIES) THEN category
  ELSE IF Related(CATEGORIES[i], category) THEN CATEGORIES[i]
  ELSE ClosestMatch(category, i + 1)

(* Lines 198-203 left out: the label is taken as it comes.                 *)
ValidateNothing(category) == category

(* Lines 198-203 for a label that is a string.                             *)
ValidateCategory(category) ==
  IF category \in CategorySet THEN category
  ELSE ClosestMatch(category, 1)

----------------------------------------------------------------------------
(* Response texts.  A text is a sequence of tokens: "fence" a Markdown     *)
(* fence, "json" the tag after a fence, " " white space, "{" and "}" the   *)
(* braces, "1" a JSON scalar, "p" prose that is not JSON, and a body token *)
(* naming the members written between the braces of a JSON object.         *)

Egyeb == <<69,103,121,233,98>>

Rendszer == <<114,101,110,100,115,122,101,114>>

BodyTokens == {"b_member", "b_lower", "b_sub", "b_other", "b_empty", "b_nocat", "b_null"}

(* The members a body token stands for: "category" (a string, null or      *)
(* missing) and "reasoning".                                               *)
BodyFields(b) ==
  CASE b = "b_member" -> [hasCategory |-> TRUE, catIsStr |-> TRUE, category |-> CATEGORIES[3], reasoning |-> "why"]
    [] b = "b_lower"  -> [hasCategory |-> TRUE, catIsStr |-> TRUE, category |-> StrLower(CATEGORIES[4]), reasoning |-> "why"]
    [] b = "b_sub"    -> [hasCategory |-> TRUE, catIsStr |-> TRUE, category |-> Rendszer, reasoning |-> "why"]
    [] b = "b_other"  -> [hasCategory |-> TRUE, catIsStr |-> TRUE, category |-> Egyeb, reasoning |-> "why"]
    [] b = "b_empty"  -> [hasCategory |-> TRUE, catIsStr |-> TRUE, category |-> <<>>, reasoning |-> "why"]
    [] b = "b_null"   -> [hasCategory |-> TRUE, catIsStr |-> FALSE, category |-> <<>>, reasoning |-> "why"]
    [] OTHER          -> [hasCategory |-> FALSE, catIsStr |-> TRUE, category |-> <<>>, reasoning |-> "why"]

NoFields == [hasCategory |-> FALSE, catIsStr |-> TRUE, category |-> <<>>, reasoning |-> ""]

ParseFail(words) == [ok |-> FALSE, isDict |-> FALSE, fields |-> NoFields, err |-> words]

ParseOk(isDict, fields) == [ok |-> TRUE, isDict |-> isDict, fields |-> fields, err |-> <<>>]

NotSpace(tok) == tok # " "

(* json.loads: white space between tokens is skipped; an object, empty or  *)
(* with members, and a scalar are the JSON documents of the alphabet.      *)
JsonLoads(text) ==
  LET s == SelectSeq(text, NotSpace)
  IN  IF s = <<"{", "}">> THEN ParseOk(TRUE, NoFields)
      ELSE IF Len(s) = 3 /\ s[1] = "{" /\ s[2] \in BodyTokens /\ s[3] = "}"
        THEN ParseOk(TRUE, BodyFields(s[2]))
      ELSE IF s = <<"1">> THEN ParseOk(FALSE, NoFields)
      ELSE ParseFail(<<"JSONDecodeError">>)

Positions(text, tok) == { i \in 1..Len(text) : text[i] = tok }

SetMin(S) == CHOOSE x \in S : \A y \in S : x <= y

SetMax(S) == CHOOSE x \in S : \A y \in S : x >= y

(* The search of line 145 for a fenced block: the leftmost fence that has  *)
(* a fence after it opens, the nearest fence after it closes.              *)
FenceMatch(text) == Cardinality(Positions(text, "fence")) >= 2

(* group(1) of that match: what lies between the two fences, after the     *)
(* optional tag.  The white space that the pattern and strip() remove is   *)
(* skipped by JsonLoads.                                                   *)
FenceGroup(text) ==
  LET open  == SetMin(Positions(text, "fence"))
      close == SetMin(Positions(text, "fence") \ {open})
      from  == IF open + 1 < close /\ text[open + 1] = "json" THEN open + 2 ELSE open + 1
  IN  SubSeq(text, from, close - 1)

(* The search of line 150: a span from the first opening brace to the     *)
(* last closing brace.                                                     *)
BraceMatch(text) ==
  /\ Positions(text, "{") # {}
  /\ \E j \in Positions(text, "}") : j > SetMin(Positions(text, "{"))

BraceGroup(text) ==
  SubSeq(text, SetMin(Positions(text, "{")), SetMax(Positions(text, "}")))

(* extract_json_from_response, lines 132-154.  A json.loads that raises in *)
(* the second or third strategy leaves the function at once.               *)
ExtractJson(text) ==
  IF text = <<>> THEN ParseFail(<<"Empty response">>)
  ELSE IF JsonLoads(text).ok THEN JsonLoads(text)
  ELSE IF FenceMatch(text) THEN JsonLoads(FenceGroup(text))
  ELSE IF BraceMatch(text) THEN JsonLoads(BraceGroup(text))
  ELSE ParseFail(<<"Could not extract JSON">>)

----------------------------------------------------------------------------
(* categorize_question, lines 157-229.                                     *)

DefaultMaxRetries == 3

ParseDelay == 1

RateDelayFactor == 4

(* The dictionaries categorize_question returns, all with the same shape:  *)
(* rawKind tells whether "raw_response" is absent, None or a text.         *)
Success(category, reasoning) ==
  [success |-> TRUE, category |-> category, reasoning |-> reasoning,
   error |-> <<>>, rawKind |-> "absent", raw |-> <<>>]

Failure(error, rawKind, raw) ==
  [success |-> FALSE, category |-> <<>>, reasoning |-> "",
   error |-> error, rawKind |-> rawKind, raw |-> raw]

(* What one call of client.models.generate_content does: it returns a     *)
(* response with a text or raises an exception of some class.              *)
Returns(text) == [kind |-> "text", text |-> text, cls |-> "", msg |-> <<>>]

Raises(cls, msg) == [kind |-> "raise", text |-> <<>>, cls |-> cls, msg |-> msg]

(* The test of line 221 that str(e) contains 429, word by word.            *)
Has429(msg) == \E i \in 1..Len(msg) : msg[i] = "429"

(* How the try block of lines 178-209 ends for a client outcome: "ok" with *)
(* the dictionary of line 205, "parse" in the handler of line 211, "other" *)
(* in the handler of line 220.                                             *)
TryBlock(co) ==
  IF co.kind = "raise"
    THEN [how |-> IF co.cls = "ValueError" THEN "parse" ELSE "other",
          msg |-> co.msg, value |-> Failure(<<>>, "absent", <<>>)]
  ELSE LET ex == ExtractJson(co.text)
       IN  IF ~ex.ok
             THEN [how |-> "parse", msg |-> ex.err, value |-> Failure(<<>>, "absent", <<>>)]
           ELSE IF ~ex.isDict \/ ~ex.fields.catIsStr
             THEN [how |-> "other", msg |-> <<"AttributeError">>,
                   value |-> Failure(<<>>, "absent", <<>>)]
           ELSE [how |-> "ok", msg |-> <<>>,
                 value |-> Success(ValidateCategory(ex.fields.category), ex.fields.reasoning)]

(* The iteration with line 222 sleeping the fixed delay of line 213.       *)
AttemptFlatDelay(attempt, maxRetries, hasResp, resp, co, t) ==
  LET hasResp2 == hasResp \/ co.kind = "text"
      resp2    == IF co.kind = "text" THEN co.text ELSE resp
      st(next, delay, result) ==
        [next |-> next, delay |-> delay, result |-> result,
         hasResp |-> hasResp2, resp |-> resp2]
  IN  CASE t.how = "ok" -> st("return", 0, t.value)
        [] t.how = "parse" ->
             IF attempt < maxRetries - 1 THEN st("sleep", ParseDelay, t.value)
             ELSE st("return", 0,
                     Failure(<<"JSON parse error:">> \o t.msg,
                             IF hasResp2 THEN "text" ELSE "none", resp2))
        [] OTHER ->
             IF Has429(t.msg) /\ attempt < maxRetries - 1
               THEN st("sleep", ParseDelay, t.value)
             ELSE st("return", 0, Failure(t.msg, "absent", <<>>))

(* The iteration without the tests of lines 212 and 221 that an attempt    *)
(* is left: it sleeps and goes on after every parse or rate limit error.   *)
AttemptNoLastCheck(attempt, maxRetries, hasResp, resp, co, t) ==
  LET hasResp2 == hasResp \/ co.kind = "text"
      resp2    == IF co.kind = "text" THEN co.text ELSE resp
      st(next, delay, result) ==
        [next |-> next, delay |-> delay, result |-> result,
         hasResp |-> hasResp2, resp |-> resp2]
  IN  CASE t.how = "ok" -> st("return", 0, t.value)
        [] t.how = "parse" -> st("sleep", ParseDelay, t.value)
        [] OTHER ->
             IF Has429(t.msg) THEN st("sleep", (attempt + 1) * RateDelayFactor, t.value)
             ELSE st("return", 0, Failure(t.msg, "absent", <<>>))

(* One iteration of the loop of line 177 at `attempt`, the client having   *)
(* done `co` and the try block having ended as t = TryBlock(co); hasResp   *)
(* and resp are the local `response` left by earlier iterations.  The      *)
(* iteration returns a dictionary or sleeps and goes on.                   *)
Attempt(attempt, maxRetries, hasResp, resp, co, t) ==
  LET hasResp2 == hasResp \/ co.kind = "text"
      resp2    == IF co.kind = "text" THEN co.text ELSE resp
      st(next, delay, result) ==
        [next |-> next, delay |-> delay, result |-> result,
         hasResp |-> hasResp2, resp |-> resp2]
  IN  CASE t.how = "ok" -> st("return", 0, t.value)
        [] t.how = "parse" ->
             IF attempt < maxRetries - 1 THEN st("sleep", ParseDelay, t.value)
             ELSE st("return", 0,
                     Failure(<<"JSON parse error:">> \o t.msg,
                             IF hasResp2 THEN "text" ELSE "none", resp2))
        [] OTHER ->
             IF Has429(t.msg) /\ attempt < maxRetries - 1
               THEN st("sleep", (attempt + 1) * RateDelayFactor, t.value)
             ELSE st("return", 0, Failure(t.msg, "absent", <<>>))

MaxRetriesExceeded == Failure(<<"Max retries exceeded">>, "absent", <<>>)

----------------------------------------------------------------------------
(* categorize_all_questions, lines 232-277, run by the main thread over a  *)
(* ThreadPoolExecutor whose workers run categorize_question.               *)

MaxN == 11

Workers == 2

MaxBacklog == 1

CheckpointEvery == 10

(* The questions of a run.  A question's kind stands for its payload: it   *)
(* fixes whether "data" is a dictionary and what the service answers to    *)
(* the prompt built from it.                                               *)
QuestionKinds ==
  <<"plain", "flaky", "notdict", "throttled", "fuzzy", "offlist", "down", "garbled">>

KindOf(i, shift) == QuestionKinds[((i - 1 + shift) % Len(QuestionKinds)) + 1]

(* The service as the dispatcher's runs see it: what generate_content does *)
(* on the call of `attempt` for a question of `kind`.                      *)
ClientScript(kind, attempt) ==
  CASE kind = "plain"     -> Returns(<<"{", "b_member", "}">>)
    [] kind = "fuzzy"     -> Returns(<<"fence", "json", " ", "{", "b_lower", "}", " ", "fence">>)
    [] kind = "offlist"   -> Returns(<<"p", "{", "b_other", "}">>)
    [] kind = "flaky"     -> IF attempt < 2 THEN Returns(<<"p">>)
                             ELSE Returns(<<"{", "b_member", "}">>)
    [] kind = "throttled" -> Raises("ClientError", <<"429", "RESOURCE_EXHAUSTED">>)
    [] kind = "down"      -> Raises("ServerError", <<"503", "UNAVAILABLE">>)
    [] OTHER              -> Returns(<<"fence", "p", "fence">>)

KindSet == { QuestionKinds[k] : k \in 1..Len(QuestionKinds) }

(* TryBlock on the calls of the scripted service, evaluated once.          *)
ScriptedTry ==
  [kind \in KindSet |->
     [attempt \in 0..(DefaultMaxRetries - 1) |-> TryBlock(ClientScript(kind, attempt))]]

VARIABLES
  questions,   \* the input list: questions[i] is the dictionary of record i
  task,        \* task[i]: the future of record i and the locals of its call
  results,     \* the slots: 0 for None, else the index of the record referred to
  nsub,        \* how many futures the main thread has submitted
  yielded,     \* the futures as_completed has handed to the loop
  completed,   \* the counter of line 259
  pc,          \* where the main thread is
  saveLock,    \* holder of save_lock, "" when free
  snapshot,    \* current_results of save_results
  file,        \* the output file as it is on disk
  lastSaved,   \* the entries of the last write that ran to its end
  saves,       \* the values of `completed` at which save_results was called
  returned,    \* the list the function returned
  cq,          \* a single call of categorize_question taken on its own
  cv,          \* a single validation of a label taken on its own
  ej           \* a single call of extract_json_from_response taken on its own

vars == <<questions, task, results, nsub, yielded, completed, pc, saveLock,
          snapshot, file, lastSaved, saves, returned, cq, cv, ej>>

N == Len(questions)

NoOutcome == Failure(<<>>, "absent", <<>>)

NewTask ==
  [state |-> "new", phase |-> "", attempt |-> 0, hasResp |-> FALSE, resp |-> <<>>,
   raised |-> FALSE, exc |-> <<>>, result |-> NoOutcome]

CqIdle ==
  [pc |-> "off", maxRetries |-> 0, attempt |-> 0, hasResp |-> FALSE, resp |-> <<>>,
   hist |-> <<>>, sleeps |-> <<>>, result |-> NoOutcome]

CvIdle == [pc |-> "off", label |-> <<>>, out |-> <<>>]

EjIdle == [pc |-> "off", text |-> <<>>, out |-> ParseFail(<<>>)]

NoFile == [exists |-> FALSE, complete |-> FALSE, entries |-> <<>>]

(* The state when categorize_all_questions has run lines 242-243 on a list *)
(* of n records as merge_parsed_files builds it: distinct dictionaries     *)
(* with no "categorization" yet.                                           *)
InitRun(n, shift) ==
  /\ questions = [i \in 1..n |-> [id |-> i, kind |-> KindOf(i, shift),
                                  hasCat |-> FALSE, categorization |-> NoOutcome]]
  /\ task = [i \in 1..n |-> NewTask]
  /\ results = [i \in 1..n |-> 0]
  /\ nsub = 0
  /\ yielded = {}
  /\ completed = 0
  /\ pc = "submit"
  /\ saveLock = ""
  /\ snapshot = <<>>
  /\ file = NoFile
  /\ lastSaved = <<>>
  /\ saves = <<>>
  /\ returned = <<>>
  /\ cq = CqIdle
  /\ cv = CvIdle
  /\ ej = EjIdle

Init == \E n \in 1..MaxN : InitRun(n, 0)

Running == { i \in 1..N : task[i].state = "running" }

Finished == { i \in 1..N : task[i].state = "finished" }

Backlog == Finished \ yielded

(* A future takes its result or its exception, lines of the executor's     *)
(* worker; the model lets at most MaxBacklog finished futures wait for the *)
(* main thread.                                                            *)
CanFinish == Cardinality(Backlog) < MaxBacklog

TaskReturn(t, result) ==
  [t EXCEPT !.state = "finished", !.phase = "", !.hasResp = FALSE, !.resp = <<>>,
            !.result = result]

TaskRaise(t, msg) ==
  [t EXCEPT !.state = "finished", !.phase = "", !.raised = TRUE, !.exc = msg]

(* executor.submit of line 255 for the next record; after the last one the *)
(* main thread enters as_completed.                                        *)
Submit ==
  /\ pc = "submit"
  /\ nsub < N
  /\ task' = [task EXCEPT ![nsub + 1].state = "pending"]
  /\ nsub' = nsub + 1
  /\ pc' = IF nsub + 1 = N THEN "wait" ELSE "submit"
  /\ UNCHANGED <<questions, results, yielded, completed, saveLock, snapshot,
                 file, lastSaved, saves, returned, cq, cv, ej>>

(* A free worker takes the oldest queued work item and runs lines 165-175  *)
(* of categorize_question: data.get raises when "data" is no dictionary.   *)
StartTask(i) ==
  /\ task[i].state = "pending"
  /\ \A j \in 1..(i - 1) : task[j].state # "pending"
  /\ Cardinality(Running) < Workers
  /\ IF questions[i].kind = "notdict"
       THEN /\ CanFinish
            /\ task' = [task EXCEPT ![i] = TaskRaise(@, <<"AttributeError">>)]
       ELSE task' = [task EXCEPT ![i].state = "running", ![i].phase = "call"]
  /\ UNCHANGED <<questions, results, nsub, yielded, completed, pc, saveLock,
                 snapshot, file, lastSaved, saves, returned, cq, cv, ej>>

(* One iteration of the retry loop in a worker, lines 177-227, up to its   *)
(* return or its sleep.                                                    *)
ClientCall(i) ==
  /\ task[i].state = "running"
  /\ task[i].phase = "call"
  /\ LET t == task[i]
         a == Attempt(t.attempt, DefaultMaxRetries, t.hasResp, t.resp,
                      ClientScript(questions[i].kind, t.attempt),
                      ScriptedTry[questions[i].kind][t.attempt])
     IN  IF a.next = "return"
           THEN /\ CanFinish
                /\ task' = [task EXCEPT ![i] = TaskReturn(t, a.result)]
           ELSE task' = [task EXCEPT ![i].phase = "sleep",
                                     ![i].hasResp = a.hasResp, ![i].resp = a.resp]
  /\ UNCHANGED <<questions, results, nsub, yielded, completed, pc, saveLock,
                 snapshot, file, lastSaved, saves, returned, cq, cv, ej>>

(* time.sleep of line 213 or 222 ends and `continue` starts the next       *)
(* iteration; when range(max_retries) is used up the loop falls to 229.    *)
Backoff(i) ==
  /\ task[i].state = "running"
  /\ task[i].phase = "sleep"
  /\ IF task[i].attempt + 1 < DefaultMaxRetries
       THEN task' = [task EXCEPT ![i].phase = "call", ![i].attempt = @ + 1]
       ELSE /\ CanFinish
            /\ task' = [task EXCEPT ![i] = TaskReturn(@, MaxRetriesExceeded)]
  /\ UNCHANGED <<questions, results, nsub, yielded, completed, pc, saveLock,
                 snapshot, file, lastSaved, saves, returned, cq, cv, ej>>

(* Lines 262-264 without the handler of line 266.                          *)
CollectOutcomeNoExcept(t) == t.result

(* Lines 262-268: what the loop attaches to the record of a future that   *)
(* returned, or that raised.                                               *)
CollectOutcome(t) ==
  IF t.raised THEN Failure(t.exc, "absent", <<>>) ELSE t.result

(* The record appended after the slots already filled, in the order of    *)
(* completion, instead of stored at its index.                             *)
StoreAppend(res, idx) ==
  [res EXCEPT ![Cardinality({ k \in DOMAIN res : res[k] # 0 }) + 1] = idx]

(* Lines 265 and 268: results[idx] = questions[idx].                       *)
StoreResult(res, idx) == [res EXCEPT ![idx] = idx]

(* Line 273 without the test for the last record.                          *)
ShouldSaveNoFinal(c, n) == c % CheckpointEvery = 0

(* Line 273 with the counter tested one completion early.                  *)
ShouldSaveOffByOne(c, n) == (c + 1) % CheckpointEvery = 0 \/ c = n

(* The condition of line 273.                                              *)
ShouldSave(c, n) == c % CheckpointEvery = 0 \/ c = n

AfterIteration(y) == IF y = 1..N THEN "shutdown" ELSE "wait"

(* The loop body without the try of line 262: the exception of a future    *)
(* that raised leaves the loop, and nothing of the function runs after it. *)
CollectUncaught(idx) ==
  /\ pc = "wait"
  /\ task[idx].state = "finished"
  /\ idx \notin yielded
  /\ ~task[idx].raised
  /\ yielded' = yielded \cup {idx}
  /\ questions' = [questions EXCEPT ![idx].hasCat = TRUE,
                                    ![idx].categorization = task[idx].result]
  /\ results' = [results EXCEPT ![idx] = idx]
  /\ completed' = completed + 1
  /\ IF (completed + 1) % CheckpointEvery = 0 \/ completed + 1 = N
       THEN /\ pc' = "save"
            /\ saves' = Append(saves, completed + 1)
       ELSE /\ pc' = AfterIteration(yielded')
            /\ saves' = saves
  /\ UNCHANGED <<task, nsub, saveLock, snapshot, file, lastSaved, returned, cq, cv, ej>>

(* as_completed hands over a finished future and the loop body runs, lines *)
(* 260-273.  Any finished future that was not handed over yet may come     *)
(* next.                                                                   *)
Collect(idx) ==
  /\ pc = "wait"
  /\ task[idx].state = "finished"
  /\ idx \notin yielded
  /\ yielded' = yielded \cup {idx}
  /\ questions' = [questions EXCEPT ![idx].hasCat = TRUE,
                                    ![idx].categorization = CollectOutcome(task[idx])]
  /\ results' = StoreResult(results, idx)
  /\ completed' = completed + 1
  /\ IF ShouldSave(completed + 1, N)
       THEN /\ pc' = "save"
            /\ saves' = Append(saves, completed + 1)
       ELSE /\ pc' = AfterIteration(yielded')
            /\ saves' = saves
  /\ UNCHANGED <<task, nsub, saveLock, snapshot, file, lastSaved, returned, cq, cv, ej>>

(* save_results entered without the with statement of line 247.            *)
SaveAcquireNoLock ==
  /\ pc = "save"
  /\ pc' = "snapshot"
  /\ UNCHANGED <<questions, task, results, nsub, yielded, completed, saveLock,
                 snapshot, file, lastSaved, saves, returned, cq, cv, ej>>

(* save_results, line 247: the lock is taken.                              *)
SaveAcquire ==
  /\ pc = "save"
  /\ saveLock = ""
  /\ saveLock' = "main"
  /\ pc' = "snapshot"
  /\ UNCHANGED <<questions, task, results, nsub, yielded, completed, snapshot,
                 file, lastSaved, saves, returned, cq, cv, ej>>

(* Line 249 over the first `completed` slots only.                         *)
CurrentResultsPrefix(res) == SelectSeq(SubSeq(res, 1, completed), LAMBDA r : r # 0)

(* Line 249: the slots that are not None, in index order.                  *)
CurrentResults(res) == SelectSeq(res, LAMBDA r : r # 0)

SaveSnapshot ==
  /\ pc = "snapshot"
  /\ snapshot' = CurrentResults(results)
  /\ pc' = "open"
  /\ UNCHANGED <<questions, task, results, nsub, yielded, completed, saveLock,
                 file, lastSaved, saves, returned, cq, cv, ej>>

(* Line 250: open(output_file, 'w') truncates the file.                    *)
SaveOpen ==
  /\ pc = "open"
  /\ file' = [exists |-> TRUE, complete |-> FALSE, entries |-> <<>>]
  /\ pc' = "dump"
  /\ UNCHANGED <<questions, task, results, nsub, yielded, completed, saveLock,
                 snapshot, lastSaved, saves, returned, cq, cv, ej>>

(* What json.dump writes for the first k dictionaries of the snapshot.     *)
Serialized(snap, k) == [j \in 1..k |-> questions[snap[j]]]

(* Line 251 under way: the buffer of the file object is flushed with a     *)
(* part of the array written.                                              *)
SaveFlush ==
  /\ pc = "dump"
  /\ \E k \in (Len(file.entries) + 1)..(Len(snapshot) - 1) :
       file' = [file EXCEPT !.entries = Serialized(snapshot, k)]
  /\ UNCHANGED <<questions, task, results, nsub, yielded, completed, pc, saveLock,
                 snapshot, lastSaved, saves, returned, cq, cv, ej>>

(* Line 251 done and the file closed.                                      *)
SaveDump ==
  /\ pc = "dump"
  /\ file' = [exists |-> TRUE, complete |-> TRUE,
              entries |-> Serialized(snapshot, Len(snapshot))]
  /\ lastSaved' = Serialized(snapshot, Len(snapshot))
  /\ pc' = "release"
  /\ UNCHANGED <<questions, task, results, nsub, yielded, completed, saveLock,
                 snapshot, saves, returned, cq, cv, ej>>

(* The lock is released, line 275 logs the progress and the loop goes on.  *)
SaveRelease ==
  /\ pc = "release"
  /\ saveLock' = ""
  /\ snapshot' = <<>>
  /\ pc' = AfterIteration(yielded)
  /\ UNCHANGED <<questions, task, results, nsub, yielded, completed, file,
                 lastSaved, saves, returned, cq, cv, ej>>

(* The with block of line 253 ends: shutdown waits for the workers.        *)
Shutdown ==
  /\ pc = "shutdown"
  /\ Finished = 1..N
  /\ pc' = "return"
  /\ UNCHANGED <<questions, task, results, nsub, yielded, completed, saveLock,
                 snapshot, file, lastSaved, saves, returned, cq, cv, ej>>

(* Line 277.                                                               *)
Return ==
  /\ pc = "return"
  /\ returned' = results
  /\ pc' = "done"
  /\ UNCHANGED <<questions, task, results, nsub, yielded, completed, saveLock,
                 snapshot, file, lastSaved, saves, cq, cv, ej>>

Next ==
  \/ Submit
  \/ \E i \in 1..N : StartTask(i)
  \/ \E i \in 1..N : ClientCall(i)
  \/ \E i \in 1..N : Backoff(i)
  \/ \E i \in 1..N : Collect(i)
  \/ SaveAcquire
  \/ SaveSnapshot
  \/ SaveOpen
  \/ SaveFlush
  \/ SaveDump
  \/ SaveRelease
  \/ Shutdown
  \/ Return

Spec == Init /\ [][Next]_vars

----------------------------------------------------------------------------
(* The same run under fair scheduling: the main thread and every worker    *)
(* that can take a step eventually takes one.  Short lists, every rotation *)
(* of the question kinds.                                                  *)

LiveN == 3

InitLive ==
  \E n \in 1..LiveN, shift \in 0..(Len(QuestionKinds) - 1) : InitRun(n, shift)

MainStep ==
  \/ Submit
  \/ \E i \in 1..N : Collect(i)
  \/ SaveAcquire \/ SaveSnapshot \/ SaveOpen \/ SaveDump \/ SaveRelease
  \/ Shutdown \/ Return

WorkerStep == \E i \in 1..N : StartTask(i) \/ ClientCall(i) \/ Backoff(i)

LiveSpec == InitLive /\ [][Next]_vars /\ WF_vars(MainStep) /\ WF_vars(WorkerStep)

----------------------------------------------------------------------------
(* One call of categorize_question against a client that may do anything   *)
(* on each call.                                                           *)

MaxRetriesBound == 3

ClientOutcomes ==
  { Returns(t) : t \in { <<>>, <<"p">>, <<"1">>, <<"{", "}">>, <<"{", "p", "}">>,
                         <<"{", "b_member", "}">>, <<"{", "b_lower", "}">>,
                         <<"{", "b_sub", "}">>, <<"{", "b_other", "}">>,
                         <<"{", "b_empty", "}">>, <<"{", "b_nocat", "}">>,
                         <<"{", "b_null", "}">>,
                         <<"fence", "json", " ", "{", "b_member", "}", " ", "fence">>,
                         <<"p", "fence", "{", "b_sub", "}", "fence", "p">>,
                         <<"fence", "p", "fence", "{", "b_member", "}">>,
                         <<"p", "{", "b_member", "}", "p">>,
                         <<"{", "b_member", "}", "p", "{", "b_other", "}">> } }
  \cup { Raises("ClientError", <<"429", "RESOURCE_EXHAUSTED">>),
         Raises("ServerError", <<"503", "UNAVAILABLE">>),
         Raises("ValueError", <<"invalid", "argument">>) }

(* TryBlock on every outcome of the client, evaluated once.                *)
TryOf == [co \in ClientOutcomes |-> TryBlock(co)]

DispatcherOff ==
  /\ questions = <<>>
  /\ task = <<>>
  /\ results = <<>>
  /\ nsub = 0
  /\ yielded = {}
  /\ completed = 0
  /\ pc = "off"
  /\ saveLock = ""
  /\ snapshot = <<>>
  /\ file = NoFile
  /\ lastSaved = <<>>
  /\ saves = <<>>
  /\ returned = <<>>

dispatcher == <<questions, task, results, nsub, yielded, completed, pc, saveLock,
                snapshot, file, lastSaved, saves, returned>>

InitRetry ==
  /\ DispatcherOff
  /\ cv = CvIdle
  /\ ej = EjIdle
  /\ \E m \in -1..MaxRetriesBound : cq = [CqIdle EXCEPT !.pc = "loop", !.maxRetries = m]

(* An iteration of the loop, lines 177-227, with the client doing co.      *)
CqCall(co) ==
  /\ cq.pc = "loop"
  /\ cq.attempt < cq.maxRetries
  /\ LET a == Attempt(cq.attempt, cq.maxRetries, cq.hasResp, cq.resp, co, TryOf[co])
     IN  cq' = [cq EXCEPT !.hist = Append(@, co),
                          !.hasResp = a.hasResp,
                          !.resp = a.resp,
                          !.pc = IF a.next = "return" THEN "done" ELSE "sleep",
                          !.sleeps = IF a.next = "return" THEN @ ELSE Append(@, a.delay),
                          !.result = IF a.next = "return" THEN a.result ELSE @]
  /\ UNCHANGED <<dispatcher, cv, ej>>

(* The sleep ends and the same attempt is made again, as a loop that does  *)
(* not count its iterations would.                                         *)
CqWakeNoCount ==
  /\ cq.pc = "sleep"
  /\ cq' = [cq EXCEPT !.pc = "loop"]
  /\ UNCHANGED <<dispatcher, cv, ej>>

(* The sleep ends and `continue` takes the next value of range().          *)
CqWake ==
  /\ cq.pc = "sleep"
  /\ cq' = [cq EXCEPT !.pc = "loop", !.attempt = @ + 1]
  /\ UNCHANGED <<dispatcher, cv, ej>>

(* range(max_retries) has no value left: line 229.                         *)
CqExhausted ==
  /\ cq.pc = "loop"
  /\ cq.attempt >= cq.maxRetries
  /\ cq' = [cq EXCEPT !.pc = "done", !.result = MaxRetriesExceeded]
  /\ UNCHANGED <<dispatcher, cv, ej>>

NextRetry ==
  \/ \E co \in ClientOutcomes : CqCall(co)
  \/ CqWake
  \/ CqExhausted

SpecRetry == InitRetry /\ [][NextRetry]_vars

(* The same call in a thread that keeps running: a call of the client      *)
(* comes back, a sleep ends.                                               *)
SpecRetryLive == InitRetry /\ [][NextRetry]_vars /\ WF_vars(NextRetry)

----------------------------------------------------------------------------
(* The validation of lines 196-203 on its own, over the labels that are    *)
(* parts of the members in any case, members with something added, and     *)
(* labels that share nothing with the members.                             *)

Substrings(m) == { SubSeq(m, a, b) : a \in 1..Len(m), b \in 0..Len(m) }

CaseVariants(l) == { l, StrLower(l), StrUpper(l) }

LabelInputs ==
  UNION { UNION { CaseVariants(l) : l \in Substrings(CATEGORIES[i]) } : i \in 1..Len(CATEGORIES) }
  \cup { CATEGORIES[i] \o <<33>> : i \in 1..Len(CATEGORIES) }
  \cup { Egyeb, <<88>>, <<66, 337, 114>>, <<98, 98>> }

InitValidate ==
  /\ DispatcherOff
  /\ cq = CqIdle
  /\ ej = EjIdle
  /\ \E l \in LabelInputs : cv = [pc |-> "in", label |-> l, out |-> <<>>]

CvValidate ==
  /\ cv.pc = "in"
  /\ cv' = [cv EXCEPT !.pc = "out", !.out = ValidateCategory(cv.label)]
  /\ UNCHANGED <<dispatcher, cq, ej>>

NextValidate == CvValidate

SpecValidate == InitValidate /\ [][NextValidate]_vars

----------------------------------------------------------------------------
(* extract_json_from_response on its own, over every text of up to         *)
(* MaxTextLen tokens and the texts the client outcomes carry.              *)

MaxTextLen == 5

TextTokens == {"fence", "json", "{", "}", "p", "b_member"}

TextsOfLen(n) == [1..n -> TextTokens]

TextInputs ==
  UNION { TextsOfLen(n) : n \in 0..MaxTextLen }
  \cup { co.text : co \in { c \in ClientOutcomes : c.kind = "text" } }

InitExtract ==
  /\ DispatcherOff
  /\ cq = CqIdle
  /\ cv = CvIdle
  /\ \E t \in TextInputs : ej = [pc |-> "in", text |-> t, out |-> ParseFail(<<>>)]

EjExtract ==
  /\ ej.pc = "in"
  /\ ej' = [ej EXCEPT !.pc = "out", !.out = ExtractJson(ej.text)]
  /\ UNCHANGED <<dispatcher, cq, cv>>

NextExtract == EjExtract

SpecExtract == InitExtract /\ [][NextExtract]_vars

----------------------------------------------------------------------------
(* Properties of the dispatcher.                                           *)

Ids(entries) == { entries[j].id : j \in 1..Len(entries) }

NonPending == { i \in 1..N : results[i] # 0 }

(* What the future of record i holds once it is finished.                  *)
OwnOutcome(i) ==
  IF task[i].raised THEN Failure(task[i].exc, "absent", <<>>) ELSE task[i].result

(* C1: when categorize_all_questions has returned, the returned list and   *)
(* the output file both have exactly N entries, none of them None, and     *)
(* entry i is input record i with a categorization attached, whatever the  *)
(* order in which the tasks completed.                                     *)
C1_FinalOutputComplete ==
  pc = "done" =>
    /\ Len(returned) = N
    /\ \A i \in 1..N : returned[i] = i /\ questions[i].hasCat
    /\ file.exists /\ file.complete
    /\ Len(file.entries) = N
    /\ \A i \in 1..N : file.entries[i].id = i /\ file.entries[i].hasCat

C1_Witness ==
  /\ pc = "done"
  /\ N > CheckpointEvery
  /\ Len(file.entries) = N

(* C2: at every moment slot i is None or refers to record i, which then    *)
(* carries the outcome of its own task; a slot that is no longer None, and *)
(* the record it refers to, are not written again.                         *)
C2_SlotOwnership ==
  /\ [](\A i \in 1..N :
          results[i] # 0 =>
            /\ results[i] = i
            /\ task[i].state = "finished"
            /\ questions[i].hasCat
            /\ questions[i].categorization = OwnOutcome(i))
  /\ [][\A i \in 1..N :
          results[i] # 0 => results'[i] = results[i] /\ questions'[i] = questions[i]]_vars

(* A later record's slot is filled while an earlier one is still None.     *)
C2_Witness ==
  \E i, j \in 1..N : i < j /\ results[i] = 0 /\ results[j] = j /\ task[i].state = "running"

(* C3: a task that ends with an exception leaves, once the loop has taken  *)
(* its future, a failure with the text of the exception in the slot of its *)
(* record; it is counted like any other completion, and the run still ends *)
(* with no slot None.                                                      *)
C3_ExceptionBecomesFailure ==
  /\ completed = Cardinality(yielded)
  /\ \A i \in 1..N :
       (task[i].raised /\ i \in yielded) =>
          /\ results[i] = i
          /\ questions[i].categorization.success = FALSE
          /\ questions[i].categorization.error = task[i].exc
          /\ task[i].exc # <<>>
  /\ pc = "done" => (yielded = 1..N /\ NonPending = 1..N)

(* The record whose task raised was collected and the loop is collecting   *)
(* other records after it.                                                 *)
C3_Witness ==
  /\ \E i \in 1..N : task[i].raised /\ i \in yielded /\ completed > 1
  /\ \E j \in 1..N : results[j] = 0
  /\ pc = "wait"

(* The values of the counter up to c at which line 273 asks for a write.   *)
RECURSIVE SavePoints(_, _)
SavePoints(c, n) ==
  IF c = 0 THEN <<>>
  ELSE IF c % 10 = 0 \/ c = n THEN Append(SavePoints(c - 1, n), c)
  ELSE SavePoints(c - 1, n)

(* C4: save_results is called exactly at the values of the counter that    *)
(* are multiples of ten or equal to the number of records, once for each   *)
(* and at no other value; for 25 records these are 10, 20 and 25; the last *)
(* write holds all the records, each a success or a failure.               *)
C4_CheckpointTriggers ==
  /\ saves = SavePoints(completed, N)
  /\ pc \in {"save", "snapshot", "open", "dump", "release"} =>
       (saves # <<>> /\ saves[Len(saves)] = completed)
  /\ { c \in 1..25 : ShouldSave(c, 25) } = {10, 20, 25}
  /\ pc = "done" =>
       /\ Len(file.entries) = N
       /\ Cardinality({ i \in 1..N : file.entries[i].categorization.success })
            + Cardinality({ i \in 1..N : ~file.entries[i].categorization.success }) = N

(* Two writes were asked for, at ten completions and at the end.           *)
C4_Witness == saves = <<10, 11>> /\ pc = "done"

(* C5: a write that ran to its end leaves in the file exactly the records  *)
(* whose slots were not None when the snapshot was taken, in increasing    *)
(* index order, each with its outcome and nothing else; from one such      *)
(* write to the next the file loses no record and does not get shorter.    *)
C5_CheckpointContents ==
  /\ [](file.complete =>
          /\ \A j \in 1..Len(file.entries) :
               /\ file.entries[j].hasCat
               /\ file.entries[j] = questions[file.entries[j].id]
               /\ results[file.entries[j].id] # 0
          /\ \A j, k \in 1..Len(file.entries) :
               j < k => file.entries[j].id < file.entries[k].id
          /\ pc = "release" => Ids(file.entries) = NonPending)
  /\ [][(file'.complete /\ file' # file) =>
          /\ Ids(lastSaved) \subseteq Ids(file'.entries)
          /\ Len(lastSaved) <= Len(file'.entries)
          /\ lastSaved' = file'.entries]_vars

(* A second write has completed over a first, out of index order before.   *)
C5_Witness ==
  /\ file.complete
  /\ Len(file.entries) > CheckpointEvery
  /\ pc = "release"

(* C6: once a first write has completed, the file is at every moment the   *)
(* whole array of some completed write.                                    *)
C6_AtomicOverwrite ==
  lastSaved # <<>> => (file.complete /\ file.entries = lastSaved)

(* C8: under fair scheduling every run ends, with no slot None and a file  *)
(* that holds the outcome of every record.                                 *)
C8_RunCompletes ==
  <>(/\ pc = "done"
     /\ NonPending = 1..N
     /\ file.complete
     /\ Ids(file.entries) = 1..N
     /\ \A j \in 1..Len(file.entries) : file.entries[j].hasCat)

(* A finished run in which some records failed and some succeeded.         *)
C8_Witness ==
  /\ pc = "done"
  /\ \E i \in 1..N : ~questions[i].categorization.success
  /\ \E i \in 1..N : task[i].raised
  /\ \E i \in 1..N : questions[i].categorization.success
  /\ Ids(file.entries) = 1..N

StoredOutcomes ==
  { questions[i].categorization : i \in { k \in 1..N : questions[k].hasCat } }
  \cup { file.entries[j].categorization : j \in 1..Len(file.entries) }

RelatedMembers(l) ==
  { i \in 1..Len(CATEGORIES) :
      \/ IsSubstring(StrLower(l), StrLower(CATEGORIES[i]))
      \/ IsSubstring(StrLower(CATEGORIES[i]), StrLower(l)) }

(* C9 as stated: every success in a slot or in the file carries a member   *)
(* of CATEGORIES.                                                          *)
C9_SuccessInEnum ==
  \A o \in StoredOutcomes : o.success => o.category \in CategorySet

(* The labels of the responses that no member contains and that contain no *)
(* member, whatever the case of the letters.                               *)
UnrelatedLabels ==
  { l \in { BodyFields(b).category : b \in BodyTokens } : RelatedMembers(l) = {} }

(* C9 amended: every success in a slot or in the file carries a member of  *)
(* CATEGORIES or, unchanged, a label of the response that no member        *)
(* contains and that contains no member, whatever the case of the letters. *)
C9_SuccessInEnumOrUnrelated ==
  \A o \in StoredOutcomes :
    o.success => (o.category \in CategorySet \/ o.category \in UnrelatedLabels)

(* A success with a label outside CATEGORIES is in a slot and in the file. *)
C9_Witness ==
  /\ \E i \in 1..N : /\ questions[i].hasCat
                     /\ questions[i].categorization.success
                     /\ questions[i].categorization.category \notin CategorySet
  /\ \E i \in 1..N : /\ questions[i].hasCat
                     /\ questions[i].kind = "fuzzy"
                     /\ questions[i].categorization.category \in CategorySet
  /\ \E j \in 1..Len(file.entries) : /\ file.complete
                                     /\ file.entries[j].categorization.success
                                     /\ file.entries[j].categorization.category \notin CategorySet

(* C11: the records of the caller's list are never written: every element  *)
(* keeps the fields and values it had before the call.                     *)
C11_InputsUntouched == [][questions' = questions]_vars

Writing == pc \in {"snapshot", "open", "dump", "release"}

(* The steps of the worker that runs record i.                             *)
WorkerOf(i) == StartTask(i) \/ ClientCall(i) \/ Backoff(i)

(* Record i has a step to take as far as the executor goes: it is running, *)
(* or it is the oldest queued item and a worker is free; a step that ends  *)
(* the future needs room among the futures waiting to be collected.        *)
Runnable(i) ==
  /\ CanFinish
  /\ \/ task[i].state = "running"
     \/ /\ task[i].state = "pending"
        /\ \A j \in 1..(i - 1) : task[j].state # "pending"
        /\ Cardinality(Running) < Workers

(* C12: save_lock is held exactly from the entry of save_results to its    *)
(* end, snapshot and write included, and only save_results takes or frees  *)
(* it, so no two writes overlap; while it is held every worker that has a  *)
(* step to take can take it, and no worker step touches the lock, the      *)
(* snapshot or the file.                                                   *)
C12_CheckpointLock ==
  /\ [](/\ saveLock \in {"", "main"}
        /\ Writing <=> saveLock = "main"
        /\ Writing => \A i \in 1..N : Runnable(i) => ENABLED WorkerOf(i))
  /\ [][saveLock' # saveLock => (SaveAcquire \/ SaveRelease)]_vars
  /\ [][task' # task /\ nsub' = nsub => UNCHANGED <<saveLock, snapshot, file, pc>>]_vars

(* A worker is between two attempts while the array is being written.      *)
C12_Witness ==
  /\ pc = "dump"
  /\ saveLock = "main"
  /\ \E i \in 1..N : task[i].state = "running" /\ task[i].attempt >= 1 /\ Runnable(i)

(* C13: the records with a slot that is not None and that the last write   *)
(* that ran to its end does not hold are never more than ten, and neither  *)
(* are those that the file on disk does not hold, which are the ones lost  *)
(* when the process stops there.                                           *)
C13_CrashWindow ==
  /\ Cardinality(NonPending \ Ids(lastSaved)) <= CheckpointEvery
  /\ Cardinality(NonPending \ Ids(file.entries)) <= CheckpointEvery

----------------------------------------------------------------------------
(* Properties of categorize_question.                                      *)

RateLimited(co) == co.kind = "raise" /\ co.cls # "ValueError" /\ Has429(co.msg)

Unparseable(co) == co.kind = "text" /\ ~ExtractJson(co.text).ok

ValidAnswer(co) ==
  /\ co.kind = "text"
  /\ ExtractJson(co.text).ok
  /\ ExtractJson(co.text).isDict
  /\ ExtractJson(co.text).fields.catIsStr

(* C7: with at least one attempt allowed, a client that raises a rate      *)
(* limit error on every call is called exactly maxRetries times and the    *)
(* result is a failure with that error; with three attempts allowed, a     *)
(* client that answers twice with an unparseable text and then with a      *)
(* valid one is called exactly three times and the result is a success.    *)
C7_RetryScenarios ==
  /\ (/\ cq.pc = "done"
      /\ cq.maxRetries >= 1
      /\ \A k \in 1..Len(cq.hist) : RateLimited(cq.hist[k]))
       => /\ Len(cq.hist) = cq.maxRetries
          /\ cq.result.success = FALSE
          /\ cq.result.error = cq.hist[Len(cq.hist)].msg
          /\ Has429(cq.result.error)
  /\ (/\ cq.maxRetries = 3
      /\ Len(cq.hist) >= 2
      /\ Unparseable(cq.hist[1])
      /\ Unparseable(cq.hist[2]))
       => /\ Len(cq.hist) = 2 => cq.pc \in {"sleep", "loop"}
          /\ (cq.pc = "done" /\ ValidAnswer(cq.hist[3]))
               => (Len(cq.hist) = 3 /\ cq.result.success)

(* Two unparseable answers, then a valid one, three attempts allowed.      *)
C7_Witness ==
  /\ cq.pc = "done"
  /\ cq.maxRetries = 3
  /\ Len(cq.hist) = 3
  /\ Unparseable(cq.hist[1]) /\ Unparseable(cq.hist[2]) /\ ValidAnswer(cq.hist[3])
  /\ cq.result.success
  /\ cq.sleeps = <<ParseDelay, ParseDelay>>

RateLimitedOutcomes == { co \in ClientOutcomes : RateLimited(co) }

UnparseableOutcomes == { co \in ClientOutcomes : Unparseable(co) }

(* The responses that give no verdict: no JSON can be extracted, or the    *)
(* JSON is no object, or the object lacks "category" or has it null.       *)
NoVerdictOutcomes ==
  { co \in ClientOutcomes :
      /\ co.kind = "text"
      /\ LET ex == ExtractJson(co.text)
         IN  ~ex.ok \/ ~ex.isDict \/ ~ex.fields.hasCategory \/ ~ex.fields.catIsStr }

(* The errors of the client whose text has no 429.                         *)
OtherErrorOutcomes == { co \in ClientOutcomes : co.kind = "raise" /\ ~Has429(co.msg) }

Terminal(r) == r.success \/ r.error # <<>>

(* C14: with at least one attempt allowed and whatever the client does on  *)
(* each call, the calls never exceed maxRetries, the call ends after at    *)
(* least one of them with a success or a failure that names its error, and *)
(* it does end.                                                            *)
C14_BoundedCalls ==
  /\ [](cq.maxRetries >= 1 =>
          /\ Len(cq.hist) <= cq.maxRetries
          /\ cq.attempt <= cq.maxRetries
          /\ cq.pc = "done" => (Len(cq.hist) >= 1 /\ Terminal(cq.result)))
  /\ (cq.maxRetries >= 1 => <>(cq.pc = "done"))

(* Three calls that failed in three ways: rate limit, parse, other error.  *)
C14_Witness ==
  /\ cq.pc = "done"
  /\ cq.maxRetries = 3
  /\ Len(cq.hist) = 3
  /\ cq.hist[1] \in RateLimitedOutcomes
  /\ cq.hist[2] \in UnparseableOutcomes
  /\ cq.hist[3] \in OtherErrorOutcomes
  /\ ~cq.result.success

(* C15: a response that gives no verdict is followed, when an attempt is   *)
(* left, by the fixed short sleep and another attempt; on the last attempt *)
(* it ends the call with a parse error failure that carries the text of    *)
(* that response.                                                          *)
C15_ParseRetry ==
  \A k \in 1..Len(cq.hist) :
    cq.hist[k] \in NoVerdictOutcomes =>
      IF k < cq.maxRetries
        THEN /\ Len(cq.sleeps) >= k
             /\ cq.sleeps[k] = ParseDelay
             /\ cq.pc # "done" \/ k < Len(cq.hist)
        ELSE /\ cq.pc = "done"
             /\ ~cq.result.success
             /\ cq.result.error # <<>> /\ cq.result.error[1] = "JSON parse error:"
             /\ cq.result.rawKind = "text"
             /\ cq.result.raw = cq.hist[k].text
             /\ Len(cq.sleeps) = k - 1

(* C16: an error of the client without 429 in its text ends the call at    *)
(* once with a failure carrying that error: it is the last call and no     *)
(* sleep follows it.                                                       *)
C16_OtherErrorImmediate ==
  \A k \in 1..Len(cq.hist) :
    cq.hist[k] \in OtherErrorOutcomes =>
      /\ k = Len(cq.hist)
      /\ cq.pc = "done"
      /\ ~cq.result.success
      /\ cq.result.error = cq.hist[k].msg
      /\ Len(cq.sleeps) = k - 1

(* C17: the sleep after attempt a = k - 1, in ticks of half a unit, is one *)
(* tick after a parse failure and (a + 1) * 2 units after a rate limit     *)
(* error, which is longer and grows by 2 units with each attempt; only     *)
(* these two failures are slept on, and an attempt that ends the call is   *)
(* followed by no sleep.                                                   *)
C17_BackoffDelays ==
  /\ \A k \in 1..Len(cq.sleeps) :
       LET a == k - 1
       IN  /\ TryOf[cq.hist[k]].how = "parse" => cq.sleeps[k] = 1
           /\ cq.hist[k] \in RateLimitedOutcomes =>
                /\ cq.sleeps[k] = 2 * ((a + 1) * 2)
                /\ cq.sleeps[k] > 1
                /\ (k > 1 /\ cq.hist[k - 1] \in RateLimitedOutcomes)
                     => cq.sleeps[k] - cq.sleeps[k - 1] = 2 * 2
           /\ TryOf[cq.hist[k]].how = "parse" \/ cq.hist[k] \in RateLimitedOutcomes
           /\ a < cq.maxRetries - 1
  /\ Len(cq.sleeps) = IF cq.pc = "done" /\ cq.hist # <<>> THEN Len(cq.hist) - 1
                      ELSE Len(cq.hist)

(* A parse failure, then a rate limit error, then the attempt that ends    *)
(* the call.                                                               *)
C17_Witness ==
  /\ cq.pc = "done"
  /\ Len(cq.hist) = 3
  /\ cq.hist[1] \in UnparseableOutcomes
  /\ cq.hist[2] \in RateLimitedOutcomes
  /\ cq.sleeps = <<1, 8>>

(* C20: with at least one attempt allowed, a failure carries the error of  *)
(* the last attempt, the parse error or the error that was raised, and is  *)
(* never the "Max retries exceeded" of line 229; that one is returned      *)
(* exactly when maxRetries is zero or less, without any call of the        *)
(* client.                                                                 *)
C20_LastErrorReported ==
  cq.pc = "done" =>
    /\ cq.maxRetries >= 1 =>
         /\ cq.result # MaxRetriesExceeded
         /\ ~cq.result.success =>
              LET t == TryOf[cq.hist[Len(cq.hist)]]
              IN  /\ t.how # "ok"
                  /\ cq.result.error =
                       IF t.how = "parse" THEN <<"JSON parse error:">> \o t.msg ELSE t.msg
    /\ cq.result = MaxRetriesExceeded <=> cq.maxRetries <= 0
    /\ cq.maxRetries <= 0 => cq.hist = <<>>

(* The second of two attempts allowed fails to parse, after a rate limit   *)
(* error on the first.                                                     *)
C20_Witness ==
  /\ cq.pc = "done"
  /\ cq.maxRetries = 2
  /\ Len(cq.hist) = 2
  /\ cq.hist[1] \in RateLimitedOutcomes
  /\ cq.hist[2] \in UnparseableOutcomes
  /\ cq.result.error[1] = "JSON parse error:"
  /\ cq.result.raw = cq.hist[2].text

----------------------------------------------------------------------------
(* Properties of extract_json_from_response.                               *)

(* The three strategies, each on its own.                                  *)
WholeText(text) == JsonLoads(text)

FencedBlock(text) ==
  IF FenceMatch(text) THEN JsonLoads(FenceGroup(text)) ELSE ParseFail(<<"no fence">>)

BraceSpan(text) ==
  IF BraceMatch(text) THEN JsonLoads(BraceGroup(text)) ELSE ParseFail(<<"no braces">>)

FirstSuccess(text) ==
  IF text = <<>> THEN ParseFail(<<"Empty response">>)
  ELSE IF WholeText(text).ok THEN WholeText(text)
  ELSE IF FencedBlock(text).ok THEN FencedBlock(text)
  ELSE IF BraceSpan(text).ok THEN BraceSpan(text)
  ELSE ParseFail(<<"Could not extract JSON">>)

(* C18: the result is that of the first of the three strategies, whole     *)
(* text, fenced block, brace span, that succeeds, and an error is reported *)
(* only for the empty text or when none of the three succeeds.             *)
C18_FirstSuccessWins ==
  ej.pc = "out" =>
    /\ ej.out.ok = FirstSuccess(ej.text).ok
    /\ ej.out.ok => /\ ej.out.isDict = FirstSuccess(ej.text).isDict
                    /\ ej.out.fields = FirstSuccess(ej.text).fields

----------------------------------------------------------------------------
(* Properties of the validation of the category.                           *)

(* C19: for a label that is not a member and is related to some member,    *)
(* the validated category is the member of lowest index among the related  *)
(* ones, and no related member of higher index is ever returned.           *)
C19_FirstInOrder ==
  (cv.pc = "out" /\ cv.label \notin CategorySet) =>
    \A i \in 1..Len(CATEGORIES) :
      Related(CATEGORIES[i], cv.label) =>
        IF \E k \in 1..(i - 1) : Related(CATEGORIES[k], cv.label)
          THEN cv.out # CATEGORIES[i]
          ELSE cv.out = CATEGORIES[i]

(* A label that four members contain: the second member, the earliest of  *)
(* the four, comes out.                                                    *)
C19_Witness ==
  /\ cv.pc = "out"
  /\ cv.label = <<115, 122, 101, 114, 118>>
  /\ RelatedMembers(cv.label) = {2, 6, 7, 9}
  /\ cv.out = CATEGORIES[2]

SubstringOfMember(l, i) == l # <<>> /\ IsSubstring(StrLower(l), StrLower(CATEGORIES[i]))

(* C10 as stated: a member yields itself, a substring of a member in any   *)
(* case yields that member, and a label related to no member, an empty one *)
(* included, comes back unchanged.                                         *)
C10_ValidatorAsStated ==
  cv.pc = "out" =>
    /\ cv.label \in CategorySet => cv.out = cv.label
    /\ \A i \in 1..Len(CATEGORIES) : SubstringOfMember(cv.label, i) => cv.out = CATEGORIES[i]
    /\ (cv.label = <<>> \/ RelatedMembers(cv.label) = {}) => cv.out = cv.label

(* C10 amended: a member yields itself; a label that is not a member and   *)
(* is, in any case of the letters, a part of some member or contains one   *)
(* yields the first such member in the order of CATEGORIES, which is the   *)
(* member m it was cut from only when no earlier member is related to it;  *)
(* the empty label yields the first member; a label related to no member   *)
(* comes back unchanged.                                                   *)
C10_ValidatorLaw ==
  cv.pc = "out" =>
    /\ cv.label \in CategorySet => cv.out = cv.label
    /\ (cv.label \notin CategorySet /\ RelatedMembers(cv.label) # {})
         => cv.out = CATEGORIES[SetMin(RelatedMembers(cv.label))]
    /\ \A i \in 1..Len(CATEGORIES) :
         (SubstringOfMember(cv.label, i) /\ \A k \in 1..(i - 1) : k \notin RelatedMembers(cv.label))
           => cv.out = CATEGORIES[i]
    /\ cv.label = <<>> => cv.out = CATEGORIES[1]
    /\ RelatedMembers(cv.label) = {} => cv.out = cv.label

(* A part of the fifth member, in capitals, that the second member also    *)
(* contains: the second member comes out.                                  *)
C10_Witness ==
  /\ cv.pc = "out"
  /\ cv.label = StrUpper(Rendszer)
  /\ SubstringOfMember(cv.label, 5)
  /\ cv.out = CATEGORIES[2]

====
